---- MODULE Spec2Model ----
(***************************************************************************)
(* Model of the ingestion-to-storage pipeline of storage-engine:           *)
(*   ListenerServer::export  -> bounded mpsc channel ->                    *)
(*   EngineCore::process_messages / process_batch / process_message ->     *)
(*   S3StorageWriter::write_spans, with the HealthCheck counters.          *)
(* Time is discrete; one unit is an arbitrary fraction of batch_timeout.   *)
(***************************************************************************)
EXTENDS Integers, Sequences, FiniteSets, TLC

(* ------------------------------ bounds --------------------------------- *)
MaxBatchSize == 3
BatchTimeout == 2
MaxTime == 3
MaxReq == 3
MaxCalls == 7
MaxThreads == 2
MaxWrite == 2
MaxLimit == 2
MaxStamp == 1
MaxMsgLen == 3
MaxSetting == 2
MaxOff == 1
MaxSpans == 3
ChanCap == 2

(* ------------------------------ inputs --------------------------------- *)
\* A wire span, reduced to the byte lengths of its identifiers.
GoodSpan == [trace_id |-> 16, span_id |-> 8, parent_span_id |-> 0]
NoSpanId == [trace_id |-> 16, span_id |-> 0, parent_span_id |-> 0]

\* The flattened span lists of the requests the producers send: no span,
\* two spans (write_spans can fail at the first or the second, or write
\* both), and a malformed span after a well-formed one (the conversion of a
\* request stops at its first malformed span, wherever it stands, and hands
\* nothing to storage).
Shapes == { <<>>, <<GoodSpan, GoodSpan>>, <<GoodSpan, NoSpanId>> }

None == [id |-> 0, spans |-> <<>>]

(* ------------------------------ state ---------------------------------- *)
VARIABLES
  chan,            \* mpsc channel buffer: requests sent and not yet received
  nextId,          \* arrival number of the next request accepted by export
  batch_size,      \* EngineCore.batch_size
  message_queue,   \* EngineCore.message_queue
  pc,              \* position of the engine's owner/task
  messages,        \* process_batch: the taken batch, not yet processed part
  cur,             \* process_message: request whose write_spans is in flight
  idx,             \* write_spans: number of spans of cur already written
  trigger,         \* what started the flush in progress: "size" | "timer"
  now,             \* clock of the batch timer (tokio Instant)
  deadline,        \* batch_timer: instant of the next tick
  window_start,    \* history: last flush point (start, tick, size-flush end)
  health,          \* HealthCheck
  outcomes,        \* history: results of process_message, in call order
  store,           \* objects put to the bucket, in order: <<request id, span no>>
  batch_log,       \* history: the batches taken by process_batch, in order
  batches_done,    \* history: number of batches process_batch has finished
  submitted,       \* history: ids whose spans were handed to write_spans
  accepted_at_shutdown, \* history: requests accepted when shutdown was called
  dropped,         \* history: ids dequeued and lost without completing
  shutdown_result, \* result of EngineCore::shutdown: "none" | "ok" | "err"
  storage_flushed, \* storage_writer.flush() has been called by shutdown
  \* -- the gateway seen alone (GatewaySpec) --
  sending,         \* export calls suspended in message_sender.send().await
  rx_closed,       \* the Receiver has been dropped
  responses,       \* the result export returned, per call: "ok" | "internal"
  enqueued,        \* history: ids that send placed on the channel
  received,        \* requests the consumer has taken with recv()
  \* -- the HealthCheck seen alone (HealthSpec, HealthRaceSpec) --
  calls,           \* history: the HealthCheck methods called, in order
  health0,         \* history: the HealthCheck when the concurrent calls began
  threads,         \* concurrent callers: method, position, fetched counter
  \* -- the storage writer seen alone (StorageSpec) --
  prefix,          \* S3StorageWriter.prefix
  bucket,          \* the objects of the bucket: key -> data, last_modified
  written,         \* history: the spans given to write_spans
  listing,         \* the result of the last list_spans
  \* -- construction (StartupSpec) --
  head_bucket,     \* what head_bucket answered in verify_bucket_access
  new_result,      \* result of EngineCore::new: "none" | "Ok" | "ConnectionError"
  \* -- single calls of conversions and validations --
  error,           \* a ProcessingError: kind and message
  status,          \* the tonic Status made from it
  config,          \* the Config given to Config::new
  validated,       \* the result of Config::validate on it
  wire_span,       \* a proto Span: the bytes of its identifiers
  converted,       \* the result of convert_span on it
  batch_call,      \* the last write_batch call: entries, writes done, result
  storage_error,   \* a StorageError: kind and message
  message_call     \* a process_message call: request, result, spans put

gatewayVars == << sending, rx_closed, responses, enqueued, received >>
healthApiVars == << calls, health0, threads >>
storageVars == << prefix, bucket, written, listing >>
startupVars == << head_bucket, new_result >>
callVars == << error, status, config, validated, wire_span,
              converted, batch_call, storage_error, message_call >>
sideVars == << gatewayVars, healthApiVars, storageVars, startupVars,
              callVars >>

vars == << chan, nextId, batch_size, message_queue, pc, messages, cur, idx,
           trigger, now, deadline, window_start, health, outcomes, store,
           batch_log, batches_done, submitted, accepted_at_shutdown, dropped,
           shutdown_result, storage_flushed, sideVars >>

(* --------------------------- HealthCheck ------------------------------- *)
\* The counters of HealthCheck; last_successful_write, a wall-clock stamp
\* that nothing in the pipeline reads back, is left out.
HealthCheck_new ==
  [is_healthy |-> TRUE, message_queue_size |-> 0,
   total_messages_processed |-> 0, failed_writes |-> 0]

update_status(h, healthy) == [h EXCEPT !.is_healthy = healthy]

\* A record_successful_write that counts only the writes that end a streak.
record_successful_write_uncounted(h) ==
  IF h.failed_writes > 0
    THEN update_status([h EXCEPT !.failed_writes = 0,
                                 !.total_messages_processed = @ + 1], TRUE)
    ELSE h

\* A record_successful_write that clears the counter and leaves the status.
record_successful_write_keeps_status(h) ==
  LET h1 == [h EXCEPT !.total_messages_processed = @ + 1]
  IN IF h1.failed_writes > 0 THEN [h1 EXCEPT !.failed_writes = 0] ELSE h1

\* A record_successful_write that reports healthy after every success.
record_successful_write_restores(h) ==
  LET h1 == [h EXCEPT !.total_messages_processed = @ + 1]
  IN update_status([h1 EXCEPT !.failed_writes = 0], TRUE)

record_successful_write(h) ==
  LET h1 == [h EXCEPT !.total_messages_processed = @ + 1]
  IN IF h1.failed_writes > 0
       THEN update_status([h1 EXCEPT !.failed_writes = 0], TRUE)
       ELSE h1

\* A record_failed_write whose threshold is one too high.
record_failed_write_late(h) ==
  LET h1 == [h EXCEPT !.failed_writes = @ + 1]
  IN IF h1.failed_writes > 6 THEN update_status(h1, FALSE) ELSE h1

\* A record_failed_write that trips when the counter reaches the threshold.
record_failed_write_early(h) ==
  LET h1 == [h EXCEPT !.failed_writes = @ + 1]
  IN IF h1.failed_writes >= 5 THEN update_status(h1, FALSE) ELSE h1

record_failed_write(h) ==
  LET h1 == [h EXCEPT !.failed_writes = @ + 1]
  IN IF h1.failed_writes > 5 THEN update_status(h1, FALSE) ELSE h1

\* An update that leaves the gauge as it was.
update_queue_size_stale(h, size) == h

update_queue_size(h, size) == [h EXCEPT !.message_queue_size = size]

(* ------------------------- span conversion ----------------------------- *)
\* TraceId::from_hex / SpanId::from_hex of hex::encode(bytes): an empty
\* string is a parse error, more digits than the integer width overflow.
from_hex_ok(len, width) == len >= 1 /\ len <= width

create_span_context_ok(span) ==
  from_hex_ok(span.trace_id, 16) /\ from_hex_ok(span.span_id, 8)

convert_span_ok(span) ==
  /\ (span.parent_span_id # 0 => from_hex_ok(span.parent_span_id, 8))
  /\ create_span_context_ok(span)

convert_request_to_spans_ok(request) ==
  \A i \in 1..Len(request.spans) : convert_span_ok(request.spans[i])

(* ------------------------- queue and timer ----------------------------- *)
\* A push that inserts at the front of the queue.
push_front(q, m) == <<m>> \o q

\* Vec::push
push(q, m) == Append(q, m)

\* Vec::pop takes the last element
pop_index(q) == Len(q)

\* time::interval_at(Instant::now() + batch_timeout, batch_timeout)
interval_at(t) == t + BatchTimeout

\* Interval::tick re-arms one period after the deadline that fired
interval_next(d) == d + BatchTimeout

\* A reset that arms the timer one unit early.
interval_reset_early(t) == t + BatchTimeout - 1

\* A reset that arms the timer one unit late.
interval_reset_late(t) == t + BatchTimeout + 1

\* Interval::reset: the next tick is one period from now
interval_reset(t) == t + BatchTimeout

\* A process_batch that gives up the batch at the first failed message.
remaining_after_error_abort(rest) == <<>>

\* process_batch: Err(e) => error!(...) and the for loop goes on
remaining_after_error(rest) == rest

(* ------------------------------ Init ----------------------------------- *)
\* The parts of the state a specification does not exercise stay as they
\* are constructed.
GatewayIdle ==
  /\ sending = {}
  /\ rx_closed = FALSE
  /\ responses = << >>
  /\ enqueued = {}
  /\ received = <<>>

HealthApiIdle ==
  /\ calls = <<>>
  /\ health0 = HealthCheck_new
  /\ threads = << >>

StorageIdle ==
  /\ prefix = <<>>
  /\ bucket = {}
  /\ written = {}
  /\ listing = [limit |-> 0, entries |-> <<>>]

\* No conversion or validation has been called.
CallIdle ==
  /\ error = [kind |-> "none", message |-> <<>>]
  /\ status = [code |-> "none", message |-> <<>>]
  /\ config = << >>
  /\ validated = "none"
  /\ wire_span = << >>
  /\ converted = [result |-> "none"]
  /\ batch_call = [entries |-> <<>>, done |-> 0, result |-> "none"]
  /\ storage_error = [kind |-> "none", message |-> <<>>]
  /\ message_call = [result |-> "none"]

\* The engine has been constructed: the bucket answered.
StartupIdle ==
  /\ CallIdle
  /\ head_bucket = "ok"
  /\ new_result = "Ok"

Init ==
  /\ StartupIdle
  /\ GatewayIdle
  /\ HealthApiIdle
  /\ StorageIdle
  /\ chan = <<>>
  /\ nextId = 1
  /\ batch_size \in 1..MaxBatchSize
  /\ message_queue = <<>>
  /\ pc = "new"
  /\ messages = <<>>
  /\ cur = None
  /\ idx = 0
  /\ trigger = "none"
  /\ now = 0
  /\ deadline = 0
  /\ window_start = 0
  /\ health = HealthCheck_new
  /\ outcomes = <<>>
  /\ store = <<>>
  /\ batch_log = <<>>
  /\ batches_done = 0
  /\ submitted = {}
  /\ accepted_at_shutdown = -1
  /\ dropped = {}
  /\ shutdown_result = "none"
  /\ storage_flushed = FALSE

(* ----------------------------- producers ------------------------------- *)
engineVars == << batch_size, message_queue, pc, messages, cur, idx, trigger >>
timerVars == << deadline, window_start >>
logVars == << outcomes, store, batch_log, batches_done, submitted, dropped >>
shutdownVars == << accepted_at_shutdown, shutdown_result, storage_flushed >>

\* ListenerServer::export: send(message).await completes when the channel
\* has room; the request is then on the channel and export returns Ok.
Export ==
  /\ UNCHANGED sideVars
  /\ nextId <= MaxReq
  /\ Len(chan) < ChanCap
  /\ \E shape \in Shapes :
       chan' = Append(chan, [id |-> nextId, spans |-> shape])
  /\ nextId' = nextId + 1
  /\ UNCHANGED << engineVars, now, timerVars, health, logVars, shutdownVars >>

(* ------------------------------- clock --------------------------------- *)
\* The engine task is woken as soon as a branch of its select! is ready:
\* time does not pass while it is waiting with a ready branch.
SelectReady == pc = "waiting" /\ (now >= deadline \/ chan # <<>>)

\* The clock is read by the batch timer only: it is followed while
\* process_messages runs.
Advance ==
  /\ UNCHANGED sideVars
  /\ now < MaxTime
  /\ pc \in {"waiting", "flushing"}
  /\ ~SelectReady
  /\ now' = now + 1
  /\ UNCHANGED << chan, nextId, engineVars, timerVars, health, logVars,
                  shutdownVars >>

(* ------------------------- process_messages ---------------------------- *)
\* process_messages is called: the interval timer is created with its
\* first tick one batch_timeout from now.
StartProcessMessages ==
  /\ UNCHANGED sideVars
  /\ pc = "new"
  /\ pc' = "waiting"
  /\ deadline' = interval_at(now)
  /\ window_start' = now
  /\ UNCHANGED << chan, nextId, batch_size, message_queue, messages, cur, idx,
                  trigger, now, health, logVars, shutdownVars >>

\* A process_batch that works on a clone and leaves the queue as it was.
left_by_clone(q) == q

\* std::mem::take(&mut self.message_queue) leaves an empty Vec behind
left_by_take(q) == <<>>

\* A size trigger that waits for one request more than batch_size.
size_reached_late(len, size) == len > size

\* if self.message_queue.len() >= self.batch_size
size_reached(len, size) == len >= size

\* A tick that flushes whatever the queue holds, even nothing.
tick_flushes_always(q) == TRUE

\* if !self.message_queue.is_empty()
tick_flushes(q) == q # <<>>

\* select! branch batch_timer.tick(): a non-empty queue is flushed
\* (process_batch takes the whole queue); otherwise the loop body ends with
\* update_queue_size.
Tick ==
  /\ UNCHANGED sideVars
  /\ pc = "waiting"
  /\ now >= deadline
  /\ deadline' = interval_next(deadline)
  /\ window_start' = now
  /\ IF tick_flushes(message_queue)
       THEN /\ messages' = message_queue
            /\ message_queue' = left_by_take(message_queue)
            /\ pc' = "flushing"
            /\ trigger' = "timer"
            /\ batch_log' = Append(batch_log, message_queue)
            /\ UNCHANGED health
       ELSE /\ health' = update_queue_size(health, Len(message_queue))
            /\ UNCHANGED << messages, message_queue, pc, trigger, batch_log >>
  /\ UNCHANGED << chan, nextId, batch_size, cur, idx, now, outcomes, store,
                  batches_done, submitted, dropped, shutdownVars >>

\* select! branch message_receiver.recv(): push, flush when the queue has
\* reached batch_size.
Recv ==
  /\ UNCHANGED sideVars
  /\ pc = "waiting"
  /\ chan # <<>>
  /\ chan' = Tail(chan)
  /\ LET q == push(message_queue, Head(chan))
     IN IF size_reached(Len(q), batch_size)
          THEN /\ messages' = q
               /\ message_queue' = left_by_take(q)
               /\ pc' = "flushing"
               /\ trigger' = "size"
               /\ batch_log' = Append(batch_log, q)
               /\ UNCHANGED health
          ELSE /\ message_queue' = q
               /\ health' = update_queue_size(health, Len(q))
               /\ UNCHANGED << messages, pc, trigger, batch_log >>
  /\ UNCHANGED << nextId, batch_size, cur, idx, now, timerVars, outcomes,
                  store, batches_done, submitted, dropped, shutdownVars >>

\* One result of process_message: batch is the number of the flush that
\* made the call, 0 for a call made by shutdown.
Outcome(request, res, batch) == [id |-> request.id, res |-> res, batch |-> batch]

\* process_batch takes the next message of the batch and process_message
\* converts it; a conversion error is logged and the loop goes on, a request
\* without spans is written trivially, otherwise write_spans starts.
BatchNext ==
  /\ UNCHANGED sideVars
  /\ pc = "flushing"
  /\ cur = None
  /\ messages # <<>>
  /\ LET m == Head(messages)
         b == Len(batch_log)
     IN /\ IF ~convert_request_to_spans_ok(m)
             THEN /\ outcomes' = Append(outcomes, Outcome(m, "validation", b))
                  /\ messages' = remaining_after_error(Tail(messages))
                  /\ UNCHANGED << cur, health, submitted >>
             ELSE /\ submitted' = submitted \cup {m.id}
                  /\ messages' = Tail(messages)
                  /\ IF m.spans = <<>>
                       THEN /\ outcomes' = Append(outcomes, Outcome(m, "ok", b))
                            /\ health' = record_successful_write(health)
                            /\ UNCHANGED cur
                       ELSE /\ cur' = m
                            /\ UNCHANGED << outcomes, health >>
  /\ idx' = 0
  /\ UNCHANGED << chan, nextId, batch_size, message_queue, pc, trigger, now,
                  timerVars, store, batch_log, batches_done, dropped,
                  shutdownVars >>

\* write_spans: the put_object of the next span of cur succeeds; after the
\* last span process_message records the success.
BatchWriteOk ==
  /\ UNCHANGED sideVars
  /\ pc = "flushing"
  /\ cur # None
  /\ store' = Append(store, << cur.id, idx + 1 >>)
  /\ IF idx + 1 = Len(cur.spans)
       THEN /\ health' = record_successful_write(health)
            /\ outcomes' = Append(outcomes, Outcome(cur, "ok", Len(batch_log)))
            /\ cur' = None
            /\ idx' = 0
       ELSE /\ idx' = idx + 1
            /\ UNCHANGED << health, outcomes, cur >>
  /\ UNCHANGED << chan, nextId, batch_size, message_queue, pc, messages,
                  trigger, now, timerVars, batch_log, batches_done, submitted,
                  dropped, shutdownVars >>

\* write_spans: the put_object fails; process_message returns the storage
\* error, process_batch logs it and goes on with the next message.
BatchWriteFail ==
  /\ UNCHANGED sideVars
  /\ pc = "flushing"
  /\ cur # None
  /\ outcomes' = Append(outcomes, Outcome(cur, "storage", Len(batch_log)))
  /\ messages' = remaining_after_error(messages)
  /\ cur' = None
  /\ idx' = 0
  /\ UNCHANGED << chan, nextId, batch_size, message_queue, pc,
                  trigger, now, timerVars, health, store, batch_log,
                  batches_done, submitted, dropped, shutdownVars >>

\* process_batch returns: a size-triggered flush resets the timer; the loop
\* body ends with update_queue_size.
BatchDone ==
  /\ UNCHANGED sideVars
  /\ pc = "flushing"
  /\ cur = None
  /\ messages = <<>>
  /\ pc' = "waiting"
  /\ trigger' = "none"
  /\ batches_done' = batches_done + 1
  /\ IF trigger = "size"
       THEN deadline' = interval_reset(now) /\ window_start' = now
       ELSE UNCHANGED timerVars
  /\ health' = update_queue_size(health, Len(message_queue))
  /\ UNCHANGED << chan, nextId, batch_size, message_queue, messages, cur, idx,
                  now, outcomes, store, batch_log, submitted, dropped,
                  shutdownVars >>

Ids(s) == { s[i].id : i \in 1..Len(s) }

\* The future of process_messages is dropped at one of its await points
\* (the select!, or a put_object in flight): on ctrl-c run_servers and main
\* return and the runtime drops the spawned task. The batch being flushed,
\* a local of process_batch, is lost with it.
Cancel ==
  /\ UNCHANGED sideVars
  /\ \/ pc = "waiting"
     \/ pc = "flushing" /\ cur # None
  /\ pc' = "stopped"
  /\ dropped' = dropped \cup Ids(messages)
                        \cup (IF cur # None THEN {cur.id} ELSE {})
  /\ messages' = <<>>
  /\ cur' = None
  /\ idx' = 0
  /\ trigger' = "none"
  /\ UNCHANGED << chan, nextId, batch_size, message_queue, now, timerVars,
                  health, outcomes, store, batch_log, batches_done, submitted,
                  shutdownVars >>

(* ------------------------------ shutdown ------------------------------- *)
\* EngineCore::shutdown is called by the owner of the engine; it takes
\* &mut self, so no process_messages future is alive.
ShutdownCall ==
  /\ UNCHANGED sideVars
  /\ pc \in {"new", "stopped"}
  /\ pc' = "draining"
  /\ accepted_at_shutdown' = nextId - 1
  /\ UNCHANGED << chan, nextId, batch_size, message_queue, messages, cur, idx,
                  trigger, now, timerVars, health, logVars, shutdown_result,
                  storage_flushed >>

\* while let Some(message) = message_queue.pop()
\* { process_message(message).await? }: a conversion error returns at once.
ShutdownPop ==
  /\ UNCHANGED sideVars
  /\ pc = "draining"
  /\ cur = None
  /\ message_queue # <<>>
  /\ LET n == pop_index(message_queue)
         m == message_queue[n]
     IN /\ message_queue' = [i \in (1..Len(message_queue)) \ {n} |->
                               message_queue[i]]
        /\ IF ~convert_request_to_spans_ok(m)
             THEN /\ outcomes' = Append(outcomes, Outcome(m, "validation", 0))
                  /\ pc' = "done"
                  /\ shutdown_result' = "err"
                  /\ UNCHANGED << cur, health, submitted >>
             ELSE /\ submitted' = submitted \cup {m.id}
                  /\ UNCHANGED << pc, shutdown_result >>
                  /\ IF m.spans = <<>>
                       THEN /\ outcomes' = Append(outcomes, Outcome(m, "ok", 0))
                            /\ health' = record_successful_write(health)
                            /\ UNCHANGED cur
                       ELSE /\ cur' = m
                            /\ UNCHANGED << outcomes, health >>
  /\ idx' = 0
  /\ UNCHANGED << chan, nextId, batch_size, messages, trigger, now, timerVars,
                  store, batch_log, batches_done, dropped,
                  accepted_at_shutdown, storage_flushed >>

\* write_spans called from shutdown: a put_object succeeds.
ShutdownWriteOk ==
  /\ UNCHANGED sideVars
  /\ pc = "draining"
  /\ cur # None
  /\ store' = Append(store, << cur.id, idx + 1 >>)
  /\ IF idx + 1 = Len(cur.spans)
       THEN /\ health' = record_successful_write(health)
            /\ outcomes' = Append(outcomes, Outcome(cur, "ok", 0))
            /\ cur' = None
            /\ idx' = 0
       ELSE /\ idx' = idx + 1
            /\ UNCHANGED << health, outcomes, cur >>
  /\ UNCHANGED << chan, nextId, batch_size, message_queue, pc, messages,
                  trigger, now, timerVars, batch_log, batches_done, submitted,
                  dropped, shutdownVars >>

\* A storage error is mapped to ProcessingError::StorageError and returned
\* by the `?`: shutdown ends with the rest of message_queue unprocessed.
ShutdownWriteFail ==
  /\ UNCHANGED sideVars
  /\ pc = "draining"
  /\ cur # None
  /\ outcomes' = Append(outcomes, Outcome(cur, "storage", 0))
  /\ cur' = None
  /\ idx' = 0
  /\ pc' = "done"
  /\ shutdown_result' = "err"
  /\ UNCHANGED << chan, nextId, batch_size, message_queue, messages, trigger,
                  now, timerVars, health, store, batch_log, batches_done,
                  submitted, dropped, accepted_at_shutdown, storage_flushed >>

\* The queue is empty: storage_writer.flush() (always Ok) and Ok(()).
ShutdownFlush ==
  /\ UNCHANGED sideVars
  /\ pc = "draining"
  /\ cur = None
  /\ message_queue = <<>>
  /\ storage_flushed' = TRUE
  /\ pc' = "done"
  /\ shutdown_result' = "ok"
  /\ UNCHANGED << chan, nextId, batch_size, message_queue, messages, cur, idx,
                  trigger, now, timerVars, health, logVars,
                  accepted_at_shutdown >>

(* --------------------------- specification ----------------------------- *)
Next ==
  \/ Export
  \/ Advance
  \/ StartProcessMessages
  \/ Tick
  \/ Recv
  \/ BatchNext
  \/ BatchWriteOk
  \/ BatchWriteFail
  \/ BatchDone
  \/ Cancel
  \/ ShutdownCall
  \/ ShutdownPop
  \/ ShutdownWriteOk
  \/ ShutdownWriteFail
  \/ ShutdownFlush

Spec == Init /\ [][Next]_vars

(* process_messages on its own: the loop of core.rs 69-95 while the         *)
(* cancellation token is never fired, so every batch it starts is finished. *)
BatchingNext ==
  \/ Export
  \/ Advance
  \/ StartProcessMessages
  \/ Tick
  \/ Recv
  \/ BatchNext
  \/ BatchWriteOk
  \/ BatchWriteFail
  \/ BatchDone

BatchingSpec == Init /\ [][BatchingNext]_vars

TypeOK ==
  /\ Len(chan) <= ChanCap
  /\ nextId \in 1..(MaxReq + 1)
  /\ pc \in {"new", "waiting", "flushing", "stopped", "draining", "done"}
  /\ now \in 0..MaxTime
  /\ shutdown_result \in {"none", "ok", "err"}

(* ------------------------------ claims --------------------------------- *)
LastBatch == batch_log[Len(batch_log)]

C2_ShutdownDrainsAccepted ==
  (shutdown_result = "ok" /\ accepted_at_shutdown < batch_size) =>
    \A id \in 1..accepted_at_shutdown : id \in submitted

\* C3: shutdown processes the remaining requests in arrival order, and
\* reports success only after the storage writer's flush.
C3_ShutdownArrivalOrder ==
  /\ \A i, j \in 1..Len(outcomes) :
       (i < j /\ outcomes[i].batch = 0 /\ outcomes[j].batch = 0)
         => outcomes[i].id < outcomes[j].id
  /\ shutdown_result = "ok" => storage_flushed

\* C4: when shutdown has returned, no request that was in message_queue
\* is left unprocessed, whatever the outcome of the other requests.
C4_ShutdownDropsNothing ==
  pc = "done" => message_queue = <<>>

\* C5: once the shutdown signal has stopped process_messages, every write
\* that had been started has run to completion: no dequeued request was
\* lost with its write in flight.
C5_CooperativeShutdown ==
  pc \in {"stopped", "draining", "done"} => dropped = {}

\* C6: a request that has been processed was written, or its failure is
\* observable in the health state (failure counter or is_healthy).
C6_WrittenOrFailureObservable ==
  (outcomes # <<>> /\ outcomes[Len(outcomes)].res # "ok") =>
    (health.failed_writes > 0 \/ ~health.is_healthy)

OkIndexes == { i \in 1..Len(outcomes) : outcomes[i].res = "ok" }

TrailingFailures ==
  Len(outcomes) - (IF OkIndexes = {} THEN 0
                   ELSE CHOOSE i \in OkIndexes : \A k \in OkIndexes : k <= i)

\* C7: the consecutive-failure counter counts the requests that failed
\* since the last success, and more than 5 of them make is_healthy false.
C7_FailureSignalled ==
  /\ health.failed_writes = TrailingFailures
  /\ TrailingFailures > 5 => ~health.is_healthy

\* C8: total_processed equals the number of requests for which
\* process_message returned success.
C8_TotalProcessed ==
  health.total_messages_processed = Cardinality(OkIndexes)

C8_Witness ==
  /\ health.total_messages_processed >= 1
  /\ \E i \in 1..Len(outcomes) : outcomes[i].res = "validation"
  /\ \E i \in 1..Len(outcomes) : outcomes[i].res = "storage"

Malformed(batch) ==
  { k \in 1..Len(batch) : ~convert_request_to_spans_ok(batch[k]) }

OutcomesOf(id, b) ==
  { i \in 1..Len(outcomes) : outcomes[i].id = id /\ outcomes[i].batch = b }

Stored(request) ==
  \A n \in 1..Len(request.spans) :
    \E i \in 1..Len(store) : store[i] = << request.id, n >>

\* C9: in a finished batch with exactly one malformed request, exactly one
\* validation failure is recorded, and every well-formed request, before
\* or after the malformed one, was handed to the storage writer and is
\* stored unless the storage itself failed.
C9_PerItemIsolation ==
  \A b \in 1..batches_done :
    LET batch == batch_log[b]
    IN Cardinality(Malformed(batch)) = 1 =>
         /\ Cardinality({ i \in 1..Len(outcomes) :
               outcomes[i].batch = b /\ outcomes[i].res = "validation" }) = 1
         /\ \A k \in (1..Len(batch)) \ Malformed(batch) :
              /\ batch[k].id \in submitted
              /\ \E i \in OutcomesOf(batch[k].id, b) :
                   /\ outcomes[i].res \in {"ok", "storage"}
                   /\ outcomes[i].res = "ok" => Stored(batch[k])

C9_Witness ==
  \E b \in 1..batches_done :
    LET batch == batch_log[b]
    IN /\ Len(batch) = 3
       /\ Malformed(batch) = {2}
       /\ \A k \in {1, 3} : \E i \in OutcomesOf(batch[k].id, b) :
            outcomes[i].res = "ok" /\ batch[k].spans # <<>>
       /\ pc = "waiting"

\* C10: process_messages passes requests to process_message in the order
\* in which they were received from the channel, within a batch and across
\* batches.
C10_ArrivalOrder ==
  \A i, j \in 1..Len(outcomes) :
    (i < j /\ outcomes[i].batch > 0 /\ outcomes[j].batch > 0)
      => /\ outcomes[i].id < outcomes[j].id
         /\ outcomes[i].batch <= outcomes[j].batch

C10_Witness ==
  /\ batches_done = 2
  /\ Len(batch_log[2]) = 2
  /\ \E i, j \in 1..Len(outcomes) :
       /\ outcomes[i].batch = 1
       /\ outcomes[j].batch = 2 /\ outcomes[j].id = batch_log[2][2].id

(* ======================= the gateway seen alone ======================== *)
\* The engine as constructed and not running; the channel, the request
\* counter and the health state are set by each specification.
EngineIdle ==
  /\ batch_size = 1
  /\ message_queue = <<>>
  /\ pc = "new"
  /\ messages = <<>>
  /\ cur = None
  /\ idx = 0
  /\ trigger = "none"
  /\ now = 0
  /\ deadline = 0
  /\ window_start = 0
  /\ outcomes = <<>>
  /\ store = <<>>
  /\ batch_log = <<>>
  /\ batches_done = 0
  /\ submitted = {}
  /\ accepted_at_shutdown = -1
  /\ dropped = {}
  /\ shutdown_result = "none"
  /\ storage_flushed = FALSE

engineRest == << engineVars, now, timerVars, logVars, shutdownVars >>

\* A channel that lets a send through when it already holds capacity items.
send_outcome_one_more(closed, len) ==
  IF closed THEN "err" ELSE IF len <= ChanCap THEN "ok" ELSE "pending"

\* A channel whose senders do not notice that the receiver is gone.
send_outcome_ignore_closed(closed, len) ==
  IF len < ChanCap THEN "ok" ELSE "pending"

\* A channel that never has room: every send to a live receiver stays
\* pending.
send_outcome_no_room(closed, len) ==
  IF closed THEN "err" ELSE "pending"

\* mpsc::Sender::send on the channel made by mpsc::channel(capacity): an
\* error when the receiver is gone, done when there is room, otherwise the
\* future stays pending.
send_outcome(closed, len) ==
  IF closed THEN "err" ELSE IF len < ChanCap THEN "ok" ELSE "pending"

\* An export that acknowledges whatever send returned.
export_status_always_ok(r) == "ok"

\* export: Ok(_) => Ok(Response), Err(e) => Err(Status::internal(..))
export_status(r) == IF r = "ok" THEN "ok" ELSE "internal"

Respond(id, r) == [i \in DOMAIN responses \cup {id} |->
                     IF i = id THEN export_status(r) ELSE responses[i]]

GatewayInit ==
  /\ StartupIdle
  /\ EngineIdle
  /\ HealthApiIdle
  /\ StorageIdle
  /\ health = HealthCheck_new
  /\ chan = <<>>
  /\ nextId = 1
  /\ GatewayIdle

\* ListenerServer::export is called with a request of one of the given
\* shapes: send either completes at once (the request is on the channel),
\* fails at once, or suspends.
ExportCallOf(shapes) ==
  /\ nextId <= MaxReq
  /\ nextId' = nextId + 1
  /\ \E shape \in shapes :
       LET m == [id |-> nextId, spans |-> shape]
           r == send_outcome(rx_closed, Len(chan))
       IN IF r = "pending"
            THEN /\ sending' = sending \cup {m}
                 /\ UNCHANGED << chan, enqueued, responses >>
            ELSE /\ responses' = Respond(m.id, r)
                 /\ chan' = IF r = "ok" THEN Append(chan, m) ELSE chan
                 /\ enqueued' = IF r = "ok" THEN enqueued \cup {m.id} ELSE enqueued
                 /\ UNCHANGED sending
  /\ UNCHANGED << rx_closed, received, health, engineRest, healthApiVars,
                  storageVars, startupVars,
                  callVars >>

ExportCall == ExportCallOf(Shapes)

\* A suspended send is resumed: there is room now, or the receiver is gone.
ExportResume ==
  /\ \E m \in sending :
       LET r == send_outcome(rx_closed, Len(chan))
       IN /\ r # "pending"
          /\ sending' = sending \ {m}
          /\ responses' = Respond(m.id, r)
          /\ chan' = IF r = "ok" THEN Append(chan, m) ELSE chan
          /\ enqueued' = IF r = "ok" THEN enqueued \cup {m.id} ELSE enqueued
  /\ UNCHANGED << nextId, rx_closed, received, health, engineRest,
                  healthApiVars, storageVars, startupVars,
                  callVars >>

\* The consumer takes a request from the channel: message_receiver.recv().
ConsumerRecv ==
  /\ ~rx_closed
  /\ chan # <<>>
  /\ received' = Append(received, Head(chan))
  /\ chan' = Tail(chan)
  /\ UNCHANGED << nextId, sending, rx_closed, responses, enqueued, health,
                  engineRest, healthApiVars, storageVars, startupVars,
                  callVars >>

\* The Receiver is dropped (the engine is dropped): the channel is closed
\* and what it still buffers is dropped with it.
ReceiverDrop ==
  /\ ~rx_closed
  /\ rx_closed' = TRUE
  /\ chan' = <<>>
  /\ UNCHANGED << nextId, sending, responses, enqueued, received, health,
                  engineRest, healthApiVars, storageVars, startupVars,
                  callVars >>

GatewayNext ==
  \/ ExportCall
  \/ ExportResume
  \/ ConsumerRecv
  \/ ReceiverDrop

GatewaySpec == GatewayInit /\ [][GatewayNext]_vars

Acked(id) == id \in DOMAIN responses /\ responses[id] = "ok"

\* C11: the channel never holds more than its capacity; an export called
\* while the receiver is alive returns success at once when there is room
\* and otherwise returns nothing (it is suspended), and a suspended export
\* completes only in a state where the channel has room again.
C11_Backpressure ==
  /\ [](Len(chan) <= ChanCap)
  /\ [][ /\ (nextId' # nextId /\ ~rx_closed) =>
              IF Len(chan) < ChanCap
                THEN nextId \in DOMAIN responses' /\ responses'[nextId] = "ok"
                ELSE nextId \notin DOMAIN responses'
                     /\ \E m \in sending' : m.id = nextId
         /\ \A m \in sending :
              (m \notin sending' /\ ~rx_closed) =>
                 /\ Len(chan) < ChanCap
                 /\ m.id \in DOMAIN responses' /\ responses'[m.id] = "ok" ]_vars

C11_Witness ==
  /\ Len(chan) = ChanCap
  /\ received = <<>>
  /\ \A id \in 1..ChanCap : Acked(id)
  /\ \E m \in sending : m.id = ChanCap + 1
  /\ ~rx_closed

\* C12: export has returned success exactly for the requests that were
\* placed on the channel.
C12_AckOnEnqueue ==
  \A id \in 1..(nextId - 1) :
    /\ Acked(id) <=> id \in enqueued
    /\ id \in DOMAIN responses \/ \E m \in sending : m.id = id

C12_Witness ==
  /\ \E i \in 1..Len(chan) : Acked(chan[i].id)
  /\ sending # {}
  /\ received # <<>>

\* C13: once the receiver is dropped nothing is enqueued or received any
\* more, and every export that returns, returns the internal error; an
\* export called from then on returns at once.
C13_ClosedChannel ==
  [][ rx_closed =>
        /\ chan' = chan
        /\ enqueued' = enqueued
        /\ received' = received
        /\ \A id \in DOMAIN responses' :
             IF id \in DOMAIN responses
               THEN responses'[id] = responses[id]
               ELSE responses'[id] = "internal"
        /\ nextId' # nextId => nextId \in DOMAIN responses' ]_vars

C13_Witness ==
  /\ rx_closed
  /\ \E id \in DOMAIN responses :
       /\ responses[id] = "internal"
       /\ id \notin enqueued
       /\ \A m \in sending : m.id < id

(* ===================== the HealthCheck seen alone ====================== *)
\* Everything but the HealthCheck and the record of the calls made on it.
healthRest == << chan, nextId, engineRest, gatewayVars, storageVars, startupVars, callVars,
                 health0, threads >>

HealthInit ==
  /\ StartupIdle
  /\ EngineIdle
  /\ GatewayIdle
  /\ StorageIdle
  /\ HealthApiIdle
  /\ chan = <<>>
  /\ nextId = 1
  /\ health = HealthCheck_new

\* HealthCheck::record_failed_write is called.
RecordFailedWrite ==
  /\ Len(calls) < MaxCalls
  /\ health' = record_failed_write(health)
  /\ calls' = Append(calls, "fail")
  /\ UNCHANGED healthRest

\* HealthCheck::record_successful_write is called (process_message).
RecordSuccessfulWrite ==
  /\ Len(calls) < MaxCalls
  /\ health' = record_successful_write(health)
  /\ calls' = Append(calls, "success")
  /\ UNCHANGED healthRest

\* HealthCheck::update_queue_size is called (process_messages).
UpdateQueueSize ==
  /\ Len(calls) < MaxCalls
  /\ \E size \in {0, 1} : health' = update_queue_size(health, size)
  /\ calls' = Append(calls, "queue")
  /\ UNCHANGED healthRest

\* ListenerServer::shutdown: health_check.update_status(false).
ListenerShutdown ==
  /\ Len(calls) < MaxCalls
  /\ health' = update_status(health, FALSE)
  /\ calls' = Append(calls, "shutdown")
  /\ UNCHANGED healthRest

HealthNext ==
  \/ RecordFailedWrite
  \/ RecordSuccessfulWrite
  \/ UpdateQueueSize
  \/ ListenerShutdown

HealthSpec == HealthInit /\ [][HealthNext]_vars

OnlyFailures == \A i \in 1..Len(calls) : calls[i] = "fail"

\* C14: after n record_failed_write calls on a fresh HealthCheck and no
\* other call, failed_writes is n and is_healthy holds exactly when n <= 5.
C14_FailureThreshold ==
  OnlyFailures =>
    /\ health.failed_writes = Len(calls)
    /\ health.is_healthy <=> Len(calls) <= 5

C14_Witness ==
  /\ OnlyFailures
  /\ Len(calls) = 6
  /\ ~health.is_healthy
  /\ health.failed_writes = 6

\* C15: a record_successful_write that follows one or more failures, with
\* no success in between, leaves is_healthy true and failed_writes 0.
C15_RecoveryOnSuccess ==
  LET n == Len(calls)
  IN (/\ n >= 2
      /\ calls[n] = "success"
      /\ \E k \in 1..(n - 1) :
           /\ calls[k] = "fail"
           /\ \A j \in (k + 1)..(n - 1) : calls[j] # "success")
     => (health.is_healthy /\ health.failed_writes = 0)

C15_Witness ==
  /\ Len(calls) = 7
  /\ \A i \in 1..6 : calls[i] = "fail"
  /\ calls[7] = "success"
  /\ health.is_healthy
  /\ health.failed_writes = 0

\* C16 as claimed: is_healthy goes from true to false only in a
\* record_failed_write that raises the failure counter above 5.
C16_OnlyThresholdUnhealthy ==
  [][ (health.is_healthy /\ ~health'.is_healthy) =>
        (calls' = Append(calls, "fail") /\ health'.failed_writes > 5) ]_vars

\* C16 amended: is_healthy goes from true to false only in a
\* record_failed_write that raises the failure counter above 5, or in the
\* update_status(false) of ListenerServer::shutdown.
C16_UnhealthyTransitions ==
  [][ (health.is_healthy /\ ~health'.is_healthy) =>
        \/ calls' = Append(calls, "fail") /\ health'.failed_writes > 5
        \/ calls' = Append(calls, "shutdown") ]_vars

C16_Witness ==
  /\ ~health.is_healthy
  /\ Len(calls) = 7
  /\ calls[1] = "queue"
  /\ \A i \in 2..7 : calls[i] = "fail"
  /\ health.failed_writes = 6

(* ================ concurrent callers of the HealthCheck ================= *)
\* Each caller runs one method; every atomic load, store or fetch_add of
\* the method is one step.
Callers == 1..MaxThreads

raceRest == << chan, nextId, engineRest, gatewayVars, storageVars, startupVars, callVars, calls,
               health0 >>

RECURSIVE FailedTimes(_)
FailedTimes(k) ==
  IF k = 0 THEN HealthCheck_new ELSE record_failed_write(FailedTimes(k - 1))

\* The calls start on a HealthCheck that earlier, sequential failures have
\* brought up to the threshold at most.
HealthRaceInit ==
  /\ StartupIdle
  /\ EngineIdle
  /\ GatewayIdle
  /\ StorageIdle
  /\ chan = <<>>
  /\ nextId = 1
  /\ calls = <<>>
  /\ \E k \in 0..5 : health = FailedTimes(k)
  /\ health0 = health
  /\ threads \in [Callers -> { [op |-> o, pc |-> "count", fetched |-> 0] :
                                o \in {"success", "fail"} }]

At(t, o, p) == threads[t].op = o /\ threads[t].pc = p

Goto(t, p, v) == [threads EXCEPT ![t].pc = p, ![t].fetched = v]

\* record_successful_write: total_messages_processed.fetch_add(1)
SuccessCount ==
  \E t \in Callers :
    /\ At(t, "success", "count")
    /\ health' = [health EXCEPT !.total_messages_processed = @ + 1]
    /\ threads' = Goto(t, "load", 0)
    /\ UNCHANGED raceRest

\* record_successful_write: if failed_writes.load() > 0
SuccessLoad ==
  \E t \in Callers :
    /\ At(t, "success", "load")
    /\ threads' = Goto(t, IF health.failed_writes > 0 THEN "reset" ELSE "done",
                       health.failed_writes)
    /\ UNCHANGED << health, raceRest >>

\* record_successful_write: failed_writes.store(0)
SuccessReset ==
  \E t \in Callers :
    /\ At(t, "success", "reset")
    /\ health' = [health EXCEPT !.failed_writes = 0]
    /\ threads' = Goto(t, "status", threads[t].fetched)
    /\ UNCHANGED raceRest

\* record_successful_write: update_status(true)
SuccessStatus ==
  \E t \in Callers :
    /\ At(t, "success", "status")
    /\ health' = update_status(health, TRUE)
    /\ threads' = Goto(t, "done", threads[t].fetched)
    /\ UNCHANGED raceRest

\* record_failed_write: failed = failed_writes.fetch_add(1) + 1
FailCount ==
  \E t \in Callers :
    /\ At(t, "fail", "count")
    /\ health' = [health EXCEPT !.failed_writes = @ + 1]
    /\ threads' = Goto(t, IF health.failed_writes + 1 > 5 THEN "status" ELSE "done",
                       health.failed_writes + 1)
    /\ UNCHANGED raceRest

\* record_failed_write: update_status(false)
FailStatus ==
  \E t \in Callers :
    /\ At(t, "fail", "status")
    /\ health' = update_status(health, FALSE)
    /\ threads' = Goto(t, "done", threads[t].fetched)
    /\ UNCHANGED raceRest

HealthRaceNext ==
  \/ SuccessCount
  \/ SuccessLoad
  \/ SuccessReset
  \/ SuccessStatus
  \/ FailCount
  \/ FailStatus

HealthRaceSpec == HealthRaceInit /\ [][HealthRaceNext]_vars

CallOrders == { p \in [Callers -> Callers] :
                  \A a, b \in Callers : p[a] = p[b] => a = b }

RECURSIVE InOrder(_, _, _)
InOrder(h, p, i) ==
  IF i > MaxThreads THEN h
  ELSE InOrder(IF threads[p[i]].op = "success"
                 THEN record_successful_write(h)
                 ELSE record_failed_write(h), p, i + 1)

\* C17: when all concurrent calls have completed, the health state is the
\* one that some sequential order of the same calls produces.
C17_Linearizable ==
  (\A t \in Callers : threads[t].pc = "done") =>
    \E p \in CallOrders : health = InOrder(health0, p, 1)

(* ------------------------- batch atomicity ----------------------------- *)
\* The batch of flush b was processed again as a whole: process_message
\* ran more than once for each of its requests.
RetriedAsWhole(b) ==
  /\ batch_log[b] # <<>>
  /\ \A k \in 1..Len(batch_log[b]) :
       Cardinality(OutcomesOf(batch_log[b][k].id, b)) > 1

\* C18: a finished flush has written all spans of all requests of its
\* batch, or the batch was retried as a whole; no flush ends with part of
\* the spans written and the rest discarded.
C18_AtomicFlush ==
  \A b \in 1..batches_done :
    \/ \A k \in 1..Len(batch_log[b]) : Stored(batch_log[b][k])
    \/ RetriedAsWhole(b)

(* ========================= S3StorageWriter ============================= *)
\* Strings are sequences of characters; ".json" stands for its five
\* characters, which nothing takes apart.
Alphabet == << ".json", "/", "0", "1", "2", "3", "4", "5", "6", "7", "8",
               "9", "a", "b", "c", "d", "e", "f", "m" >>

Rank(c) == CHOOSE i \in 1..Len(Alphabet) : Alphabet[i] = c

\* The prefixes a writer is constructed with: none, plain, with a trailing
\* separator.
Prefixes == { <<>>, << "m" >>, << "m", "/" >> }

HexDigits == << "0", "1", "2", "3", "4", "5", "6", "7", "8", "9", "a", "b",
                "c", "d", "e", "f" >>

\* Display of TraceId and SpanId: lower-case hexadecimal, zero-padded.
RECURSIVE ToHex(_, _)
ToHex(n, width) ==
  IF width = 0 THEN <<>>
  ELSE ToHex(n \div 16, width - 1) \o << HexDigits[(n % 16) + 1] >>

trace_id_to_string(id) == ToHex(id, 32)
span_id_to_string(id) == ToHex(id, 16)

\* Duration since UNIX_EPOCH of a SystemTime, and Duration::as_nanos.
Duration_from_nanos(n) ==
  [secs |-> n \div 1000000000, nanos |-> n % 1000000000]

as_nanos(dur) == dur.secs * 1000000000 + dur.nanos

\* The SpanData values handed to write_spans; each span has its own pair
\* of identifiers.
Spans ==
  { [trace_id |-> 1, span_id |-> 1, name |-> "a", span_kind |-> "Client",
     start_time |-> Duration_from_nanos(5),
     end_time |-> Duration_from_nanos(1000000007), status |-> "Ok"],
    [trace_id |-> 1, span_id |-> 171, name |-> "b", span_kind |-> "Server",
     start_time |-> Duration_from_nanos(1000000000),
     end_time |-> Duration_from_nanos(1000000001), status |-> "Unset"],
    [trace_id |-> 18, span_id |-> 1, name |-> "a", span_kind |-> "Client",
     start_time |-> Duration_from_nanos(0),
     end_time |-> Duration_from_nanos(9), status |-> "Ok"] }

RECURSIVE trim_end_matches(_, _)
trim_end_matches(str, c) ==
  IF str # <<>> /\ str[Len(str)] = c
    THEN trim_end_matches(SubSeq(str, 1, Len(str) - 1), c)
    ELSE str

\* S3StorageWriter::get_full_key
get_full_key(p, key) ==
  IF p = <<>> THEN key ELSE trim_end_matches(p, "/") \o << "/" >> \o key

\* The key write_spans formats for a span.
span_key(p, span) ==
  p \o << "/" >> \o trace_id_to_string(span.trace_id) \o << "/" >>
    \o span_id_to_string(span.span_id) \o << ".json" >>

\* The JSON object write_spans serializes for a span.
span_json(span) ==
  [trace_id |-> trace_id_to_string(span.trace_id),
   span_id |-> span_id_to_string(span.span_id),
   name |-> span.name,
   kind |-> span.span_kind,
   start_time |-> as_nanos(span.start_time),
   end_time |-> as_nanos(span.end_time),
   status |-> span.status]

\* put_object: the object of that key is created or replaced.
put_object(objects, key, data, stamp) ==
  { o \in objects : o.key # key }
    \cup { [key |-> key, data |-> data, last_modified |-> stamp] }

\* S3StorageWriter::write, given that its put_object succeeds.
write(objects, p, key, data, stamp) ==
  put_object(objects, get_full_key(p, key), data, stamp)

\* write_spans on the first n spans of a vector.
RECURSIVE write_spans(_, _, _, _, _)
write_spans(objects, p, spans, n, stamp) ==
  IF n = 0 THEN objects
  ELSE write(write_spans(objects, p, spans, n - 1, stamp), p,
             span_key(p, spans[n]), span_json(spans[n]), stamp)

StartsWith(str, p) ==
  Len(p) <= Len(str) /\ SubSeq(str, 1, Len(p)) = p

\* Byte order of two keys, the order in which S3 lists them.
RECURSIVE LexLess(_, _)
LexLess(a, b) ==
  IF a = <<>> THEN b # <<>>
  ELSE IF b = <<>> THEN FALSE
  ELSE IF Head(a) = Head(b) THEN LexLess(Tail(a), Tail(b))
  ELSE Rank(Head(a)) < Rank(Head(b))

RECURSIVE InKeyOrder(_)
InKeyOrder(objects) ==
  IF objects = {} THEN <<>>
  ELSE LET first == CHOOSE o \in objects :
                      \A x \in objects \ {o} : LexLess(o.key, x.key)
       IN << first >> \o InKeyOrder(objects \ {first})

take(seq, n) == SubSeq(seq, 1, IF n < Len(seq) THEN n ELSE Len(seq))

\* list_objects_v2 with a prefix and max_keys
list_objects_v2(objects, p, max_keys) ==
  take(InKeyOrder({ o \in objects : StartsWith(o.key, p) }), max_keys)

\* sort_by(|a, b| b.last_modified.cmp(&a.last_modified)): a stable sort,
\* newest first.
RECURSIVE insert_entry(_, _)
insert_entry(sorted, e) ==
  IF sorted = <<>> THEN << e >>
  ELSE IF Head(sorted).last_modified >= e.last_modified
         THEN << Head(sorted) >> \o insert_entry(Tail(sorted), e)
         ELSE << e >> \o sorted

RECURSIVE sort_by_last_modified(_)
sort_by_last_modified(entries) ==
  IF entries = <<>> THEN <<>>
  ELSE insert_entry(
         sort_by_last_modified(SubSeq(entries, 1, Len(entries) - 1)),
         entries[Len(entries)])

\* S3StorageWriter::list_spans
list_spans(objects, p, limit) ==
  LET page == list_objects_v2(objects, p \o << "/" >>, limit)
      entries == [i \in 1..Len(page) |->
                    [key |-> page[i].key,
                     last_modified |-> page[i].last_modified]]
  IN take(sort_by_last_modified(entries), limit)

\* S3StorageWriter::read_span: get_object under the key as given, then
\* the fields of StoredSpan taken from the JSON object.
read_span(objects, key) ==
  IF \E o \in objects : o.key = key
    THEN LET data == (CHOOSE o \in objects : o.key = key).data
         IN [ok |-> TRUE,
             trace_id |-> data.trace_id, span_id |-> data.span_id,
             name |-> data.name, kind |-> data.kind,
             start_time |-> data.start_time, end_time |-> data.end_time,
             status |-> data.status]
    ELSE [ok |-> FALSE]

storageRest == << chan, nextId, health, engineRest, gatewayVars,
                  healthApiVars, startupVars, callVars >>

StorageInit ==
  /\ StartupIdle
  /\ EngineIdle
  /\ GatewayIdle
  /\ HealthApiIdle
  /\ chan = <<>>
  /\ nextId = 1
  /\ health = HealthCheck_new
  /\ prefix \in Prefixes
  /\ bucket = {}
  /\ written = {}
  /\ listing = [limit |-> 0, entries |-> <<>>]

Latest(objects) ==
  IF objects = {} THEN 0
  ELSE CHOOSE t \in { o.last_modified : o \in objects } :
         \A o \in objects : o.last_modified <= t

SpanVectors ==
  UNION { [1..n -> Spans] : n \in 1..MaxWrite }

\* write_spans is called with a vector of spans; the first n put_object
\* calls succeed, and a failure ends the call. S3 stamps the objects with
\* its clock, in seconds.
WriteSpans ==
  \E spans \in SpanVectors, stamp \in 0..MaxStamp :
    \E n \in 0..Len(spans) :
      /\ stamp >= Latest(bucket)
      /\ bucket' = write_spans(bucket, prefix, spans, n, stamp)
      /\ written' = written \cup { spans[i] : i \in 1..n }
      /\ UNCHANGED << prefix, listing, storageRest >>

\* list_spans is called with a limit.
ListSpans(limit) ==
  /\ listing' = [limit |-> limit,
                 entries |-> list_spans(bucket, prefix, limit)]
  /\ UNCHANGED << prefix, bucket, written, storageRest >>

StorageNext ==
  \/ WriteSpans
  \/ \E limit \in 1..MaxLimit : ListSpans(limit)

StorageSpec == StorageInit /\ [][StorageNext]_vars

\* C19: every span that write_spans has written is stored under exactly
\* the key prefix/<trace_id hex>/<span_id hex>.json, and the bucket holds
\* no other keys.
C19_KeyScheme ==
  /\ \A span \in written :
       \E o \in bucket :
         o.key = span_key(prefix, span) /\ o.data = span_json(span)
  /\ { o.key : o \in bucket } = { span_key(prefix, span) : span \in written }

HexValue(c) == CHOOSE v \in 0..15 : HexDigits[v + 1] = c

\* The number that the first k hexadecimal digits of str denote.
RECURSIVE FromHexDigits(_, _)
FromHexDigits(str, k) ==
  IF k = 0 THEN 0
  ELSE 16 * FromHexDigits(str, k - 1) + HexValue(str[k])

FromHex(str) == FromHexDigits(str, Len(str))

\* The StoredSpan has the fields of the span.
SameFields(stored, span) ==
  /\ stored.ok
  /\ Len(stored.trace_id) = 32 /\ FromHex(stored.trace_id) = span.trace_id
  /\ Len(stored.span_id) = 16 /\ FromHex(stored.span_id) = span.span_id
  /\ stored.name = span.name
  /\ stored.kind = span.span_kind
  /\ Duration_from_nanos(stored.start_time) = span.start_time
  /\ Duration_from_nanos(stored.end_time) = span.end_time
  /\ stored.status = span.status

RoundTrip(span) ==
  \E i \in 1..Len(listing.entries) :
    SameFields(read_span(bucket, listing.entries[i].key), span)

\* C20: a list_spans call whose limit covers the bucket returns, for every
\* span written so far, a key on which read_span yields the span's fields.
C20_KeyRoundTrip ==
  [][\A limit \in 1..MaxLimit :
       (ListSpans(limit) /\ limit >= Cardinality(bucket)) =>
         \A span \in written : RoundTrip(span)']_vars

(* ============================ construction ============================= *)
\* An adapter that leaves the check of the bucket to the first write.
verify_bucket_access_lazy(answer) == "Ok"

\* S3StorageWriter::verify_bucket_access: any error of head_bucket becomes
\* a ConnectionError.
verify_bucket_access(answer) ==
  IF answer = "ok" THEN "Ok" ELSE "ConnectionError"

\* What head_bucket can answer: the bucket is there, it is missing,
\* access is denied, the endpoint does not answer.
HeadBucketAnswers == { "ok", "not_found", "forbidden", "unreachable" }

\* main has made the channel; EngineCore::new has not been called yet.
StartupInit ==
  /\ GatewayIdle
  /\ HealthApiIdle
  /\ StorageIdle
  /\ CallIdle
  /\ head_bucket = "none"
  /\ new_result = "none"
  /\ chan = <<>>
  /\ nextId = 1
  /\ batch_size \in 1..MaxBatchSize
  /\ message_queue = <<>>
  /\ pc = "unbuilt"
  /\ messages = <<>>
  /\ cur = None
  /\ idx = 0
  /\ trigger = "none"
  /\ now = 0
  /\ deadline = 0
  /\ window_start = 0
  /\ health = HealthCheck_new
  /\ outcomes = <<>>
  /\ store = <<>>
  /\ batch_log = <<>>
  /\ batches_done = 0
  /\ submitted = {}
  /\ accepted_at_shutdown = -1
  /\ dropped = {}
  /\ shutdown_result = "none"
  /\ storage_flushed = FALSE

\* EngineCore::new: S3StorageWriter::new(...).await? verifies the bucket;
\* on an error no EngineCore exists and the receiver is dropped with it.
EngineCore_new ==
  /\ pc = "unbuilt"
  /\ \E answer \in HeadBucketAnswers :
       /\ head_bucket' = answer
       /\ new_result' = verify_bucket_access(answer)
       /\ pc' = IF verify_bucket_access(answer) = "Ok" THEN "new" ELSE "failed"
  /\ UNCHANGED << chan, nextId, batch_size, message_queue, messages, cur, idx,
                  trigger, now, timerVars, health, logVars, shutdownVars,
                  gatewayVars, healthApiVars, storageVars, callVars >>

StartupNext ==
  \/ EngineCore_new
  \/ Next

StartupSpec == StartupInit /\ [][StartupNext]_vars

\* C21: when the bucket is unreachable or unauthorized at construction,
\* EngineCore::new fails with a connection error, no engine exists, and no
\* request is dequeued, processed or written; an engine that runs was
\* built on a bucket that answered.
C21_FailFastConstruction ==
  /\ head_bucket \notin {"none", "ok"} =>
       /\ new_result = "ConnectionError"
       /\ pc = "failed"
       /\ message_queue = <<>> /\ messages = <<>> /\ cur = None
       /\ outcomes = <<>> /\ store = <<>> /\ batch_log = <<>>
       /\ submitted = {} /\ dropped = {}
  /\ pc \notin {"unbuilt", "failed"} => head_bucket = "ok" /\ new_result = "Ok"

C21_Witness ==
  /\ head_bucket = "forbidden"
  /\ pc = "failed"
  /\ Len(chan) = ChanCap

(* ===================== ProcessingError to Status ======================= *)
\* Everything but what the calls below use.
callRest == << chan, nextId, health, engineRest, gatewayVars, healthApiVars,
               storageVars, startupVars >>

\* Messages: strings of at most MaxMsgLen characters.
Messages == UNION { [1..n -> {"a", "b"}] : n \in 0..MaxMsgLen }

ErrorKinds == { "ValidationError", "ProcessingFailed", "StorageError",
                "RateLimitExceeded", "NotFound", "ShutdownError" }

\* A conversion that reports storage trouble as a client mistake.
status_code_storage_invalid(kind) ==
  CASE kind \in {"ValidationError", "StorageError"} -> "InvalidArgument"
    [] kind \in {"ProcessingFailed", "ShutdownError"} -> "Internal"
    [] kind = "RateLimitExceeded" -> "ResourceExhausted"
    [] kind = "NotFound" -> "NotFound"

\* The arms of the match in From<ProcessingError> for Status.
status_code(kind) ==
  CASE kind = "ValidationError" -> "InvalidArgument"
    [] kind = "ProcessingFailed" -> "Internal"
    [] kind = "StorageError" -> "Internal"
    [] kind = "RateLimitExceeded" -> "ResourceExhausted"
    [] kind = "NotFound" -> "NotFound"
    [] kind = "ShutdownError" -> "Internal"

\* From<ProcessingError> for Status: Status::<code>(msg)
status_from(e) == [code |-> status_code(e.kind), message |-> e.message]

ErrorInit ==
  /\ StartupIdle
  /\ EngineIdle
  /\ GatewayIdle
  /\ HealthApiIdle
  /\ StorageIdle
  /\ chan = <<>>
  /\ nextId = 1
  /\ health = HealthCheck_new

\* A ProcessingError is raised somewhere in the service.
RaiseError ==
  /\ error.kind = "none"
  /\ \E kind \in ErrorKinds, message \in Messages :
       error' = [kind |-> kind, message |-> message]
  /\ UNCHANGED << status, config, validated, wire_span, converted, batch_call,
                  storage_error, message_call, callRest >>

\* The error is converted with Status::from.
ConvertError ==
  /\ error.kind # "none"
  /\ status.code = "none"
  /\ status' = status_from(error)
  /\ UNCHANGED << error, config, validated, wire_span, converted, batch_call,
                  storage_error, message_call, callRest >>

ErrorNext ==
  \/ RaiseError
  \/ ConvertError

ErrorSpec == ErrorInit /\ [][ErrorNext]_vars

\* C22: the Status made from a ProcessingError is invalid-argument for a
\* validation error, internal for a storage or processing error,
\* resource-exhausted for a rate error and not-found for a not-found
\* error, and it carries the error's message unchanged.
C22_StatusMapping ==
  status.code # "none" =>
    /\ status.message = error.message
    /\ error.kind = "ValidationError" => status.code = "InvalidArgument"
    /\ error.kind \in {"StorageError", "ProcessingFailed"} =>
         status.code = "Internal"
    /\ error.kind = "RateLimitExceeded" => status.code = "ResourceExhausted"
    /\ error.kind = "NotFound" => status.code = "NotFound"

C22_Witness ==
  /\ error.kind = "StorageError"
  /\ status.code = "Internal"
  /\ Len(status.message) = MaxMsgLen

(* ============================== Config ================================= *)
\* The settings Config::validate reads or the engine uses, each from 0 up.
Configs ==
  [batch_size : 0..MaxSetting, batch_timeout_ms : 0..MaxSetting,
   max_retries : 0..MaxSetting, initial_backoff_ms : 0..MaxSetting,
   max_backoff_ms : 0..MaxSetting]

\* Config::validate
validate(c) ==
  IF c.batch_size = 0 THEN "InvalidValue"
  ELSE IF c.max_retries = 0 THEN "InvalidValue"
  ELSE IF c.max_backoff_ms < c.initial_backoff_ms THEN "InvalidValue"
  ELSE "Ok"

ConfigInit ==
  /\ StartupIdle
  /\ EngineIdle
  /\ GatewayIdle
  /\ HealthApiIdle
  /\ StorageIdle
  /\ chan = <<>>
  /\ nextId = 1
  /\ health = HealthCheck_new

\* Config::new (as from_file and from_env_vars): the Config is put
\* together and validate decides whether it is returned.
Config_new ==
  /\ validated = "none"
  /\ \E c \in Configs :
       /\ config' = c
       /\ validated' = validate(c)
  /\ UNCHANGED << error, status, wire_span, converted, batch_call,
                  storage_error, message_call, callRest >>

ConfigNext == Config_new

ConfigSpec == ConfigInit /\ [][ConfigNext]_vars

\* C23: a configuration that validation accepts has batch_size > 0,
\* batch_timeout > 0 and max_backoff >= initial_backoff.
C23_InvalidConfigRejected ==
  validated = "Ok" =>
    /\ config.batch_size > 0
    /\ config.batch_timeout_ms > 0
    /\ config.max_backoff_ms >= config.initial_backoff_ms

(* =========================== convert_span ============================== *)
Repeat(b, n) == [i \in 1..n |-> b]

\* Identifier byte strings around a width: none, too short by up to
\* MaxOff, exact, too long by up to MaxOff, of bytes 0x00, 0x01 or 0xab,
\* and exact or longer ones behind a leading zero byte.
IdBytes(width) ==
  { Repeat(b, n) : b \in {0, 1, 171},
                   n \in (0..MaxOff) \cup ((width - MaxOff)..(width + MaxOff)) }
    \cup { << 0 >> \o Repeat(171, n) : n \in (width - 1)..(width - 1 + MaxOff) }

\* hex::encode: two lower-case digits for each byte.
hex_encode(bytes) ==
  [i \in 1..(2 * Len(bytes)) |->
     LET b == bytes[(i + 1) \div 2]
     IN IF i % 2 = 1 THEN HexDigits[(b \div 16) + 1]
                     ELSE HexDigits[(b % 16) + 1]]

\* The number a digit string denotes, as its digits without leading zeros.
numeral(digits) ==
  LET significant == { i \in 1..Len(digits) : digits[i] # "0" }
  IN IF significant = {} THEN <<>>
     ELSE SubSeq(digits,
                 CHOOSE i \in significant : \A j \in significant : i <= j,
                 Len(digits))

\* u128::from_str_radix(s, 16) and u64::from_str_radix(s, 16), behind
\* TraceId::from_hex and SpanId::from_hex: an empty string is an error, as
\* is a number of more than width hexadecimal digits.
from_str_radix(digits, width) ==
  IF digits = <<>> THEN [ok |-> FALSE, kind |-> "Empty"]
  ELSE IF Len(numeral(digits)) > width THEN [ok |-> FALSE, kind |-> "PosOverflow"]
  ELSE [ok |-> TRUE, value |-> numeral(digits)]

TraceId_from_hex(digits) == from_str_radix(digits, 32)
SpanId_from_hex(digits) == from_str_radix(digits, 16)

\* Display of an identifier: its digits, zero-padded to the width.
id_to_string(value, width) == Repeat("0", width - Len(value)) \o value

ValidationFailure == [result |-> "ValidationError"]

\* EngineCore::create_span_context
create_span_context(span) ==
  LET trace == TraceId_from_hex(hex_encode(span.trace_id))
      id == SpanId_from_hex(hex_encode(span.span_id))
  IN IF ~trace.ok THEN ValidationFailure
     ELSE IF ~id.ok THEN ValidationFailure
     ELSE [result |-> "Ok", trace_id |-> trace.value, span_id |-> id.value]

\* EngineCore::convert_span: the parent first, SpanId::INVALID when the
\* span has none, then the span context.
convert_span(span) ==
  LET parent == IF span.parent_span_id # <<>>
                  THEN SpanId_from_hex(hex_encode(span.parent_span_id))
                  ELSE [ok |-> TRUE, value |-> <<>>]
      context == create_span_context(span)
  IN IF ~parent.ok THEN ValidationFailure
     ELSE IF context.result # "Ok" THEN ValidationFailure
     ELSE [result |-> "Ok", trace_id |-> context.trace_id,
           span_id |-> context.span_id, parent_span_id |-> parent.value]

ConvertInit ==
  /\ StartupIdle
  /\ EngineIdle
  /\ GatewayIdle
  /\ HealthApiIdle
  /\ StorageIdle
  /\ chan = <<>>
  /\ nextId = 1
  /\ health = HealthCheck_new

\* convert_span is called on a span from the wire.
ConvertSpan ==
  /\ converted.result = "none"
  /\ \E trace \in IdBytes(16), id \in IdBytes(8),
        parent \in { <<>>, Repeat(1, 8) } :
       LET span == [trace_id |-> trace, span_id |-> id,
                    parent_span_id |-> parent]
       IN /\ wire_span' = span
          /\ converted' = convert_span(span)
  /\ UNCHANGED << error, status, config, validated, batch_call,
                  storage_error, message_call, callRest >>

ConvertNext == ConvertSpan

ConvertSpec == ConvertInit /\ [][ConvertNext]_vars

\* C24: a conversion that succeeds yields identifiers whose hex text is
\* the hex text of the bytes given, and a span whose trace or span
\* identifier is empty or of the wrong length fails with a validation
\* error.
C24_IdentifierRoundTrip ==
  /\ converted.result = "Ok" =>
       /\ id_to_string(converted.trace_id, 32) = hex_encode(wire_span.trace_id)
       /\ id_to_string(converted.span_id, 16) = hex_encode(wire_span.span_id)
  /\ (converted.result # "none"
        /\ (Len(wire_span.trace_id) # 16 \/ Len(wire_span.span_id) # 8)) =>
       converted.result = "ValidationError"

(* -------------------- timer ticks on an empty queue -------------------- *)
\* C25: a timer tick that fires while the queue is empty starts no flush:
\* the engine keeps waiting, the queue stays empty, no batch is taken, no
\* request is processed and nothing is written.
C25_EmptyTickNoFlush ==
  [][(Tick /\ message_queue = <<>>) =>
       /\ pc' = "waiting"
       /\ message_queue' = <<>>
       /\ UNCHANGED << messages, cur, trigger, chan, logVars >>]_vars

C25_Witness ==
  /\ pc = "waiting"
  /\ message_queue = <<>>
  /\ batch_log = <<>>
  /\ deadline = 2 * BatchTimeout
  /\ health.message_queue_size = 0

(* ------------------ the window after a size-triggered flush ------------ *)
\* The last batch taken was flushed by the size trigger (a timer-triggered
\* batch is shorter than batch_size).
AfterSizeFlush == batch_log # <<>> /\ Len(LastBatch) = batch_size

\* C26: when the flush before a timer-triggered flush was size-triggered,
\* the timer-triggered flush starts at least one full batch_timeout after
\* the last flush point, which is the end of that size-triggered flush or
\* a later tick that found the queue empty.
C26_WindowRestarts ==
  [][(Tick /\ tick_flushes(message_queue) /\ AfterSizeFlush) =>
       now - window_start >= BatchTimeout]_vars

C26_Witness ==
  /\ pc = "flushing"
  /\ trigger = "timer"
  /\ Len(batch_log) >= 2
  /\ Len(batch_log[Len(batch_log) - 1]) = batch_size
  /\ now = window_start

(* ----------------------- a flush drains the queue ---------------------- *)
InBatches(id) == \E b \in 1..Len(batch_log) : id \in Ids(batch_log[b])

\* C27: process_batch takes the whole queue: the queue is empty while the
\* flush runs and when it completes, and a request that is on the channel
\* belongs to no batch taken so far; the flush leaves the channel as it is,
\* and a request enters a batch only by being received after the flush.
C27_FlushDrainsQueue ==
  /\ [](pc = "flushing" => message_queue = <<>>)
  /\ [](\A i \in 1..Len(chan) : ~InBatches(chan[i].id))
  /\ [][BatchDone => (message_queue' = <<>> /\ chan' = chan)]_vars
  /\ [][pc = "flushing" => (Ids(chan) \subseteq Ids(chan')
                              /\ UNCHANGED << message_queue, batch_log >>)]_vars

C27_Witness ==
  /\ pc = "flushing"
  /\ batches_done >= 1
  /\ Len(batch_log) = 2
  /\ chan # <<>>
  /\ \A i \in 1..Len(chan) : chan[i].id > LastBatch[Len(LastBatch)].id

(* --------------------------- queue bound ------------------------------- *)
\* C28: the accumulated queue never holds more than batch_size requests,
\* neither at rest nor at the moment a flush takes it, and while the
\* engine waits for the next channel item or tick it holds fewer than
\* batch_size.
C28_QueueBound ==
  /\ Len(message_queue) <= batch_size
  /\ \A b \in 1..Len(batch_log) : Len(batch_log[b]) <= batch_size
  /\ pc = "waiting" => Len(message_queue) < batch_size

C28_Witness ==
  /\ pc = "waiting"
  /\ batch_size = MaxBatchSize
  /\ Len(message_queue) = batch_size - 1
  /\ chan # <<>>

(* ------------------------ exactly once per request --------------------- *)
ProcessedInBatches(id) ==
  { i \in 1..Len(outcomes) : outcomes[i].id = id /\ outcomes[i].batch >= 1 }

\* C29: process_messages passes every request it has received to
\* process_message exactly once: until shutdown takes over the queue, a
\* received request is in the queue or in a batch, never both; each
\* request of a batch that process_batch has finished has exactly one
\* result, in that batch, whether it failed or not; and no request ever
\* has two results from process_batch or appears in two batches.
C29_ProcessedExactlyOnce ==
  /\ pc \notin {"draining", "done"} =>
       \A id \in 1..(nextId - 1) :
         \/ id \in Ids(chan)
         \/ id \in Ids(message_queue) /\ ~InBatches(id)
         \/ InBatches(id) /\ id \notin Ids(message_queue)
  /\ \A id \in 1..(nextId - 1) :
       /\ Cardinality(ProcessedInBatches(id)) <= 1
       /\ Cardinality({ b \in 1..Len(batch_log) : id \in Ids(batch_log[b]) }) <= 1
  /\ \A b \in 1..batches_done :
       \A k \in 1..Len(batch_log[b]) :
         /\ Cardinality(OutcomesOf(batch_log[b][k].id, b)) = 1
         /\ ProcessedInBatches(batch_log[b][k].id) = OutcomesOf(batch_log[b][k].id, b)

C29_Witness ==
  /\ pc = "waiting"
  /\ \E b \in 1..batches_done :
       /\ Len(batch_log[b]) >= 2
       /\ \E i \in OutcomesOf(batch_log[b][1].id, b) : outcomes[i].res = "storage"
       /\ \E i \in OutcomesOf(batch_log[b][2].id, b) : outcomes[i].res = "ok"

(* ============================ write_batch ============================== *)
\* The entries given to write_batch: up to MaxWrite pairs of key and data.
BatchKeys == { << "a" >>, << "b" >> }

BatchEntries ==
  UNION { [1..n -> [key : BatchKeys, data : {1, 2}]] : n \in 1..MaxWrite }

\* write applied to the first n entries, in order.
RECURSIVE apply_writes(_, _, _, _, _)
apply_writes(objects, p, entries, n, stamp) ==
  IF n = 0 THEN objects
  ELSE write(apply_writes(objects, p, entries, n - 1, stamp), p,
             entries[n].key, entries[n].data, stamp)

\* A write_batch that writes nothing unless every write succeeds.
write_batch_atomic(objects, p, entries, n, stamp) ==
  IF n < Len(entries) THEN objects
  ELSE apply_writes(objects, p, entries, n, stamp)

\* S3StorageWriter::write_batch, of which the first n writes succeed:
\* for (key, data) in entries { self.write(key, data).await?; }
write_batch(objects, p, entries, n, stamp) ==
  apply_writes(objects, p, entries, n, stamp)

\* write_batch is called; write n + 1, if there is one, fails.
WriteBatch(entries, n, stamp) ==
  /\ stamp >= Latest(bucket)
  /\ bucket' = write_batch(bucket, prefix, entries, n, stamp)
  /\ batch_call' = [entries |-> entries, done |-> n,
                    result |-> IF n = Len(entries) THEN "Ok" ELSE "WriteFailed"]
  /\ UNCHANGED << prefix, written, listing, chan, nextId, health, engineRest,
                  gatewayVars, healthApiVars, startupVars, error, status,
                  config, validated, wire_span, converted, storage_error,
                  message_call >>

\* The calls follow each other within one second of the S3 clock.
WriteBatchNext ==
  \E entries \in BatchEntries :
    \E n \in 0..Len(entries) : WriteBatch(entries, n, Latest(bucket))

WriteBatchSpec == StorageInit /\ [][WriteBatchNext]_vars

ObjectAt(objects, key) == { o \in objects : o.key = key }

\* The last of the first n entries that has the key of entry i.
LastWriteOf(entries, n, i) ==
  CHOOSE j \in 1..n :
    /\ entries[j].key = entries[i].key
    /\ \A k \in 1..n : entries[k].key = entries[i].key => k <= j

\* C30: write_batch writes its entries in the given order and is not
\* atomic: when write n + 1 fails it returns that error, every entry
\* before it is in the bucket (under a repeated key, the later entry's
\* data), and a key that only the failed or a later entry names is left
\* as it was. Every step is a write_batch call, which batch_call records.
C30_SequentialNotAtomic ==
  [][LET entries == batch_call'.entries
         n == batch_call'.done
     IN /\ batch_call'.result = "WriteFailed" <=> n < Len(entries)
        /\ \A i \in 1..n :
             \E o \in bucket' :
               /\ o.key = get_full_key(prefix, entries[i].key)
               /\ o.data = entries[LastWriteOf(entries, n, i)].data
        /\ \A i \in (n + 1)..Len(entries) :
             (\A j \in 1..n : entries[j].key # entries[i].key) =>
               ObjectAt(bucket', get_full_key(prefix, entries[i].key))
                 = ObjectAt(bucket, get_full_key(prefix, entries[i].key))]_vars

C30_Witness ==
  /\ batch_call.result = "WriteFailed"
  /\ batch_call.done = 1
  /\ Len(batch_call.entries) = 2
  /\ batch_call.entries[1].key # batch_call.entries[2].key
  /\ ObjectAt(bucket, get_full_key(prefix, batch_call.entries[1].key)) # {}
  /\ ObjectAt(bucket, get_full_key(prefix, batch_call.entries[2].key)) = {}
(* ======================= prefix normalisation ========================== *)
\* The keys of the spans written so far as a writer constructed with
\* prefix p stores them.
KeysUnder(p) ==
  { get_full_key(p, span_key(p, span)) : span \in written }

\* C31: a prefix with a trailing separator yields the stored keys and the
\* listing of the same prefix without it: the bucket holds exactly the keys
\* of the writer with the trimmed prefix, and every list_spans call returns
\* what that writer's call returns.
C31_PrefixNormalised ==
  /\ []({ o.key : o \in bucket } = KeysUnder(trim_end_matches(prefix, "/")))
  /\ [][\A limit \in 1..MaxLimit :
          ListSpans(limit) =>
            listing'.entries =
              list_spans(bucket, trim_end_matches(prefix, "/"), limit)]_vars
(* ================= StorageError to ProcessingError ===================== *)
StorageErrorKinds == { "WriteFailed", "ConnectionError", "BatchWriteFailed",
                       "ConfigError", "RetryLimitExceeded", "ReadFailed" }

\* format!("<label>: {}", msg)
format_label(label, msg) == << label, ": " >> \o msg

\* A conversion that files read failures under the label of write failures.
storage_label_read_as_write(kind) ==
  CASE kind = "WriteFailed" -> "Write failed"
    [] kind = "ConnectionError" -> "Connection failed"
    [] kind = "BatchWriteFailed" -> "Batch write failed"
    [] kind = "ConfigError" -> "Config error"
    [] kind = "RetryLimitExceeded" -> "Retry limit exceeded"
    [] kind = "ReadFailed" -> "Write failed"

\* The label each arm of the match in From<StorageError> puts in front.
storage_label(kind) ==
  CASE kind = "WriteFailed" -> "Write failed"
    [] kind = "ConnectionError" -> "Connection failed"
    [] kind = "BatchWriteFailed" -> "Batch write failed"
    [] kind = "ConfigError" -> "Config error"
    [] kind = "RetryLimitExceeded" -> "Retry limit exceeded"
    [] kind = "ReadFailed" -> "Read failed"

\* From<StorageError> for ProcessingError
processing_error_from(e) ==
  [kind |-> "StorageError",
   message |-> format_label(storage_label(e.kind), e.message)]

\* Display of StorageError: the #[error("<label>: {0}")] attributes.
StorageError_to_string(e) ==
  format_label(CASE e.kind = "WriteFailed" -> "Write failed"
                 [] e.kind = "ConnectionError" -> "Connection failed"
                 [] e.kind = "BatchWriteFailed" -> "Batch write failed"
                 [] e.kind = "ConfigError" -> "Configuration error"
                 [] e.kind = "RetryLimitExceeded" -> "Retry limit exceeded"
                 [] e.kind = "ReadFailed" -> "Read failed",
               e.message)

\* process_message: map_err(|e| ProcessingError::StorageError(e.to_string()))
map_err_storage(e) ==
  [kind |-> "StorageError", message |-> StorageError_to_string(e)]

\* A storage operation fails with a StorageError.
RaiseStorageError ==
  /\ storage_error.kind = "none"
  /\ \E kind \in StorageErrorKinds, message \in Messages :
       storage_error' = [kind |-> kind, message |-> message]
  /\ UNCHANGED << error, status, config, validated, wire_span, converted,
                  batch_call, message_call, callRest >>

\* It is converted with ProcessingError::from.
ConvertStorageError ==
  /\ storage_error.kind # "none"
  /\ error.kind = "none"
  /\ error' = processing_error_from(storage_error)
  /\ UNCHANGED << storage_error, status, config, validated, wire_span,
                  converted, batch_call, message_call, callRest >>

\* It comes out of write_spans in process_message.
MapStorageError ==
  /\ storage_error.kind # "none"
  /\ error.kind = "none"
  /\ error' = map_err_storage(storage_error)
  /\ UNCHANGED << storage_error, status, config, validated, wire_span,
                  converted, batch_call, message_call, callRest >>

StorageErrorNext ==
  \/ RaiseStorageError
  \/ ConvertStorageError
  \/ MapStorageError

StorageErrorSpec == ErrorInit /\ [][StorageErrorNext]_vars

\* str holds sub as a contiguous part.
Contains(str, sub) ==
  \E i \in 0..(Len(str) - Len(sub)) : SubSeq(str, i + 1, i + Len(sub)) = sub

\* C32: the ProcessingError made from a StorageError of any variant, by
\* ProcessingError::from or by process_message, is of the kind
\* StorageError; its message holds the original message after a
\* non-empty label, and the label tells the variant: no other variant with
\* the same message gives the same text.
C32_StorageErrorConversion ==
  error.kind # "none" =>
    /\ error.kind = "StorageError"
    /\ Contains(error.message, storage_error.message)
    /\ Len(error.message) > Len(storage_error.message)
    /\ \A other \in StorageErrorKinds \ {storage_error.kind} :
         LET e == [kind |-> other, message |-> storage_error.message]
         IN /\ processing_error_from(e).message # error.message
            /\ map_err_storage(e).message # error.message

C32_Witness ==
  /\ storage_error.kind = "ConfigError"
  /\ error.kind = "StorageError"
  /\ error.message[1] = "Config error"
  /\ Len(storage_error.message) = MaxMsgLen
(* ===================== process_message seen alone ====================== *)
\* The chunks of the first k elements of seq, a new chunk starting after
\* every element that is in marks.
RECURSIVE Chunks(_, _, _)
Chunks(seq, marks, k) ==
  IF k = 0 THEN <<>>
  ELSE IF k = 1 THEN << << seq[1] >> >>
  ELSE LET prev == Chunks(seq, marks, k - 1)
       IN IF seq[k - 1] \in marks
            THEN Append(prev, << seq[k] >>)
            ELSE [prev EXCEPT ![Len(prev)] = Append(@, seq[k])]

\* An ExportTraceServiceRequest: the spans in order, grouped into
\* resource_spans and scope_spans; cuts[i] tells which group ends after
\* span i.
Request(spans, cuts) ==
  LET n == Len(spans)
      ends(kinds) == { i \in 1..(n - 1) : cuts[i] \in kinds }
      resources == Chunks([i \in 1..n |-> i], ends({"resource"}), n)
  IN [resource_spans |->
        [r \in 1..Len(resources) |->
           LET scopes == Chunks(resources[r], ends({"scope"}),
                                Len(resources[r]))
           IN [scope_spans |->
                 [c \in 1..Len(scopes) |->
                    [spans |-> [j \in 1..Len(scopes[c]) |->
                                  spans[scopes[c][j]]]]]]]]

Requests ==
  UNION { { Request(spans, cuts) :
              spans \in [1..n -> {GoodSpan, NoSpanId}],
              cuts \in [1..(n - 1) -> {"none", "scope", "resource"}] } :
          n \in 0..MaxSpans }

\* The spans of the first k scope_spans of a resource_spans, in order.
RECURSIVE scope_loop(_, _)
scope_loop(scope_spans, k) ==
  IF k = 0 THEN <<>>
  ELSE scope_loop(scope_spans, k - 1) \o scope_spans[k].spans

\* The spans of the first k resource_spans of a request, in order.
RECURSIVE resource_loop(_, _)
resource_loop(resource_spans, k) ==
  IF k = 0 THEN <<>>
  ELSE resource_loop(resource_spans, k - 1)
         \o scope_loop(resource_spans[k].scope_spans,
                       Len(resource_spans[k].scope_spans))

\* spans.push(self.convert_span(span)?) over the first k spans met by the
\* three nested loops: the first error ends the function.
RECURSIVE push_converted(_, _)
push_converted(met, k) ==
  IF k = 0 THEN [ok |-> TRUE, spans |-> <<>>]
  ELSE LET before == push_converted(met, k - 1)
       IN IF ~before.ok THEN before
          ELSE IF convert_span_ok(met[k])
            THEN [ok |-> TRUE,
                  spans |-> Append(before.spans,
                                   [trace_id |-> met[k].trace_id,
                                    span_id |-> met[k].span_id])]
            ELSE [ok |-> FALSE, spans |-> <<>>]

\* A conversion that leaves malformed spans out and keeps the others.
convert_request_to_spans_skipping(request) ==
  LET met == resource_loop(request.resource_spans,
                           Len(request.resource_spans))
  IN [ok |-> TRUE,
      spans |-> SelectSeq([i \in 1..Len(met) |->
                             [trace_id |-> met[i].trace_id,
                              span_id |-> met[i].span_id]],
                          LAMBDA sp : sp.trace_id >= 1 /\ sp.span_id >= 1)]

\* EngineCore::convert_request_to_spans
convert_request_to_spans(request) ==
  LET met == resource_loop(request.resource_spans,
                           Len(request.resource_spans))
  IN push_converted(met, Len(met))

\* EngineCore::process_message, when the first puts put_object calls of
\* write_spans succeed.
process_message(request, puts) ==
  LET conv == convert_request_to_spans(request)
  IN IF ~conv.ok
       THEN [request |-> request, result |-> "ValidationError",
             written |-> <<>>]
       ELSE IF puts < Len(conv.spans)
         THEN [request |-> request, result |-> "StorageError",
               written |-> SubSeq(conv.spans, 1, puts)]
         ELSE [request |-> request, result |-> "Ok", written |-> conv.spans]

ProcessMessage ==
  /\ \E request \in Requests, puts \in 0..MaxSpans :
       message_call' = process_message(request, puts)
  /\ UNCHANGED << error, status, config, validated, wire_span, converted,
                  batch_call, storage_error, callRest >>

ProcessMessageNext == ProcessMessage

ProcessMessageSpec == ErrorInit /\ [][ProcessMessageNext]_vars

\* The request holds a malformed span in some resource and scope group.
HasMalformedSpan(request) ==
  \E r \in 1..Len(request.resource_spans) :
    \E c \in 1..Len(request.resource_spans[r].scope_spans) :
      \E j \in 1..Len(request.resource_spans[r].scope_spans[c].spans) :
        ~convert_span_ok(request.resource_spans[r].scope_spans[c].spans[j])

\* C33: a process_message call on a request with a malformed span in any
\* group fails with a validation error and puts none of the request's
\* spans, the well-formed ones included.
C33_AllOrNothing ==
  (message_call.result # "none" /\ HasMalformedSpan(message_call.request)) =>
    /\ message_call.result = "ValidationError"
    /\ message_call.written = <<>>

\* Two well-formed spans of one scope, then a malformed span in a second
\* resource.
C33_Witness ==
  /\ message_call.result = "ValidationError"
  /\ Len(message_call.request.resource_spans) = 2
  /\ message_call.request.resource_spans[1].scope_spans[1].spans
       = << GoodSpan, GoodSpan >>
  /\ message_call.request.resource_spans[2].scope_spans[1].spans
       = << NoSpanId >>
(* ========================= queue-size gauge ============================ *)
\* C34: whenever process_messages waits for the next channel item or timer
\* tick, the message_queue_size of the health state is the length of the
\* engine's queue.
C34_QueueSizeGauge ==
  pc = "waiting" => health.message_queue_size = Len(message_queue)

\* The loop has flushed, and waits with requests in its queue.
C34_Witness ==
  /\ pc = "waiting"
  /\ batches_done >= 1
  /\ Len(message_queue) = 2
  /\ health.message_queue_size = 2
(* ==================== every sender has been dropped ==================== *)
\* What the senders left on the channel before the last of them was
\* dropped: at most ChanCap requests, numbered in the order of their sends.
ChannelContents ==
  UNION { { [i \in 1..n |-> [id |-> i, spans |-> shapes[i]]] :
              shapes \in [1..n -> Shapes] } : n \in 0..ChanCap }

\* The engine as constructed, with no Sender left: recv() yields the
\* requests on the channel and then None.
SendersDroppedInit ==
  /\ StartupIdle
  /\ GatewayIdle
  /\ HealthApiIdle
  /\ StorageIdle
  /\ chan \in ChannelContents
  /\ nextId = Len(chan) + 1
  /\ batch_size \in 1..MaxBatchSize
  /\ message_queue = <<>>
  /\ pc = "new"
  /\ messages = <<>>
  /\ cur = None
  /\ idx = 0
  /\ trigger = "none"
  /\ now = 0
  /\ deadline = 0
  /\ window_start = 0
  /\ health = HealthCheck_new
  /\ outcomes = <<>>
  /\ store = <<>>
  /\ batch_log = <<>>
  /\ batches_done = 0
  /\ submitted = {}
  /\ accepted_at_shutdown = -1
  /\ dropped = {}
  /\ shutdown_result = "none"
  /\ storage_flushed = FALSE

\* The select! of process_messages with no Sender left. On an empty channel
\* recv() yields None, the pattern Some(message) fails and that branch is
\* disabled; batch_timer.tick() is bound to _ and is never disabled, so the
\* select! waits for the tick and its else branch is not taken.
SendersDroppedNext ==
  \/ StartProcessMessages
  \/ Advance
  \/ Tick
  \/ Recv
  \/ BatchNext
  \/ BatchWriteOk
  \/ BatchWriteFail
  \/ BatchDone

SendersDroppedSpec == SendersDroppedInit /\ [][SendersDroppedNext]_vars

\* C35: with every sender dropped, once the channel is empty the loop
\* flushes what its queue holds at the next tick, and a select! reached with
\* channel and queue both empty takes the break branch: process_messages
\* returns instead of serving a further tick.
C35_TerminatesWhenSendersDropped ==
  [][(chan = <<>> /\ Tick) =>
       IF message_queue # <<>>
         THEN pc' = "flushing" /\ messages' = message_queue
         ELSE pc' = "returned"]_vars
(* =================== unhealthy set from outside ======================== *)
\* C36: while is_healthy is false and failed_writes is 0, as after the
\* update_status(false) of ListenerServer::shutdown, a successful write
\* leaves is_healthy false; is_healthy turns true only in a successful
\* write that finds failed_writes above 0.
C36_SuccessDoesNotRestore ==
  /\ [][(~health.is_healthy /\ health.failed_writes = 0
           /\ calls' = Append(calls, "success")) => ~health'.is_healthy]_vars
  /\ [][(~health.is_healthy /\ health'.is_healthy) =>
          (calls' = Append(calls, "success") /\ health.failed_writes > 0)]_vars

\* Shutdown of the listener on a HealthCheck without failures, then two
\* successful writes.
C36_Witness ==
  /\ ~health.is_healthy
  /\ health.failed_writes = 0
  /\ Len(calls) >= 3
  /\ calls[Len(calls) - 2] = "shutdown"
  /\ calls[Len(calls) - 1] = "success"
  /\ calls[Len(calls)] = "success"
  /\ \A i \in 1..Len(calls) : calls[i] # "fail"
(* ================= producers and consumer together ===================== *)
\* The requests of the producers: one whose span is written or meets a
\* storage failure, and one that fails conversion.
PipelineShapes == { <<GoodSpan>>, <<GoodSpan, NoSpanId>> }

PipelineExport == ExportCallOf(PipelineShapes)

\* export calls, suspended ones included, against the running loop of
\* process_messages.
PipelineNext ==
  \/ PipelineExport
  \/ ExportResume
  \/ StartProcessMessages
  \/ Advance
  \/ Tick
  \/ Recv
  \/ BatchNext
  \/ BatchWriteOk
  \/ BatchWriteFail
  \/ BatchDone

PipelineSpec == Init /\ [][PipelineNext]_vars

\* The runtime polls every task that is ready, a put_object call comes
\* back with a result, and a sender waiting for room is woken when there
\* is room.
PipelineFairSpec ==
  /\ PipelineSpec
  /\ WF_vars(StartProcessMessages)
  /\ WF_vars(Recv)
  /\ WF_vars(BatchNext)
  /\ WF_vars(BatchWriteOk \/ BatchWriteFail)
  /\ WF_vars(BatchDone)
  /\ WF_vars(ExportResume)

\* C37: every export call suspended on a full channel completes in the
\* end: the loop comes back to recv() after each flush and makes room.
C37_SuspendedExportCompletes ==
  \A id \in 1..MaxReq :
    (\E m \in sending : m.id = id) ~> (id \in DOMAIN responses)

\* An export was suspended on the full channel and is still waiting while
\* the consumer, having received a request, writes the spans of its batch.
C37_Witness ==
  /\ sending # {}
  /\ Len(chan) = ChanCap - 1
  /\ pc = "flushing"
  /\ cur # None
====
